---- MODULE Spec2Model ----
(***************************************************************************)
(* Campus navigation: the Graph model (nodes, undirected edges), the BFS   *)
(* and DFS traversals over it and the App handlers that drive them         *)
(* (src/app.py).                                                           *)
(*                                                                         *)
(* Conventions.  A name is a Python str, modelled as the sequence of its   *)
(* character codes (" " is 32, "A" is 65).  A float that the program       *)
(* stores with at most one decimal is modelled in tenths (1.0 is 10,       *)
(* 100 m is 1000).  A dict is modelled in its insertion order where the    *)
(* code iterates over it (Graph.edges) and as a function where it only     *)
(* looks keys up (Graph.nodes, parent).                                    *)
(***************************************************************************)
EXTENDS Integers, Sequences, FiniteSets, TLC

VARIABLES
    nodes,      \* Graph.nodes : name -> Node
    edges,      \* Graph.edges : insertion-ordered sequence of (key, Edge)
    ret,        \* outcome of the last Graph call: operation, arguments, error, value
    res,        \* outcome of the last traversal: mode, inputs, visited_order, path, parent
    combo_values,   \* App: the values of the four comboboxes (last refresh)
    combo_start,    \* App.combo_start.get()
    combo_goal,     \* App.combo_goal.get()
    listbox_nodes,  \* App.listbox_nodes rows
    listbox_edges,  \* App.listbox_edges rows
    mode_place_node,\* App.mode_place_node
    anim_steps,     \* App.anim_steps
    anim_index,     \* App.anim_index
    active_path,    \* App.active_path
    animating,      \* App.animating
    timers,         \* number of pending after(450, _animate_step) callbacks
    dialog,         \* title of the last messagebox the last handler showed
    uncaught,       \* exception that escaped the last handler ("" if none)
    txt_output,     \* App.txt_output: what _print_result last wrote
    clicks           \* number of user actions handled so far (bounds the exploration)

appVars == <<combo_values, combo_start, combo_goal, listbox_nodes, listbox_edges,
             mode_place_node, anim_steps, anim_index, active_path, animating,
             timers, dialog, uncaught, txt_output, clicks>>

vars == <<nodes, edges, ret, res, appVars>>

----------------------------------------------------------------------------
(* Names *)

A == <<65>>
B == <<66>>
C == <<67>>
D == <<68>>
EmptyName == <<>>
Blank == <<32>>
PaddedA == <<32, 65>>

\* every building name of the model; the first NumNames of them can be added
\* by add_node, D exists only in the A,B,C,D fixture and as an absent name
NameList == <<A, B, C, D>>
NodeNames == {NameList[i] : i \in 1..Len(NameList)}

NumNames == 2
Names == {NameList[i] : i \in 1..(IF NumNames < Len(NameList) THEN NumNames ELSE Len(NameList))}

\* a network drawn for a traversal has the first NumSearchNames names as its
\* nodes and at most MaxEdges edges
NumSearchNames == 3
SearchNames == {NameList[i] : i \in 1..(IF NumSearchNames < Len(NameList) THEN NumSearchNames ELSE Len(NameList))}
MaxEdges == 3

\* Python's str comparison: lexicographic on the character codes
RECURSIVE StrLess(_, _)
StrLess(s, t) ==
    IF t = <<>> THEN FALSE
    ELSE IF s = <<>> THEN TRUE
    ELSE IF Head(s) = Head(t) THEN StrLess(Tail(s), Tail(t))
    ELSE Head(s) < Head(t)

\* str.strip(): drop leading and trailing whitespace
RECURSIVE lstrip(_)
lstrip(s) == IF s # <<>> /\ Head(s) = 32 THEN lstrip(Tail(s)) ELSE s

RECURSIVE rstrip(_)
rstrip(s) ==
    IF s # <<>> /\ s[Len(s)] = 32 THEN rstrip(SubSeq(s, 1, Len(s) - 1)) ELSE s

strip(s) == rstrip(lstrip(s))

\* mutant of key: the pair as given, not sorted
key_unsorted(u, v) == <<u, v>>

\* tuple(sorted((u, v))): the normalized key of an undirected edge
key(u, v) == IF StrLess(v, u) THEN <<v, u>> ELSE <<u, v>>

----------------------------------------------------------------------------
(* Model: Node, Edge, Graph *)

Node(name, x, y) == [name |-> name, x |-> x, y |-> y, weight |-> 10]

Edge(u, v, distance, time, accessible) ==
    [u |-> u, v |-> v, distance |-> distance, time |-> time,
     accessible |-> accessible, closed |-> FALSE]

\* one item of the edges dict
Item(k, e) == [key |-> k, e |-> e]

NoNodes == [n \in {} |-> Node(n, 0, 0)]

\* key in self.edges
HasKey(es, k) == \E i \in 1..Len(es) : es[i].key = k

\* name in key (membership in the 2-tuple)
InKey(name, k) == name = k[1] \/ name = k[2]

\* the outcome of a Graph call: the dicts after it, the ValueError it raised
\* ("" if none) and the value it returned
Return(ns, es, value) == [nodes |-> ns, edges |-> es, err |-> "", value |-> value]
Raise(ns, es, err) == [nodes |-> ns, edges |-> es, err |-> err, value |-> 0]

\* Graph.add_node
add_node(ns, es, name, x, y) ==
    IF name = <<>> \/ strip(name) = <<>> THEN Raise(ns, es, "InvalidName")
    ELSE IF name \in DOMAIN ns THEN Raise(ns, es, "DuplicateName")
    ELSE Return([n \in DOMAIN ns \cup {name} |->
                    IF n = name THEN Node(name, x, y) ELSE ns[n]],
                es, 0)

\* mutant of delete_node: the node goes, its edges stay
delete_node_keeps_edges(ns, es, name) ==
    IF name \notin DOMAIN ns THEN Raise(ns, es, "NotFound")
    ELSE Return([n \in DOMAIN ns \ {name} |-> ns[n]], es,
                Len(SelectSeq(es, LAMBDA it : InKey(name, it.key))))

\* mutant of delete_node: only the edges whose first key component is the name
delete_node_first_only(ns, es, name) ==
    IF name \notin DOMAIN ns THEN Raise(ns, es, "NotFound")
    ELSE
        LET edges_to_delete == SelectSeq(es, LAMBDA it : name = it.key[1]) IN
        Return([n \in DOMAIN ns \ {name} |-> ns[n]],
               SelectSeq(es, LAMBDA it : ~HasKey(edges_to_delete, it.key)),
               Len(edges_to_delete))

\* Graph.delete_node
delete_node(ns, es, name) ==
    IF name \notin DOMAIN ns THEN Raise(ns, es, "NotFound")
    ELSE
        LET edges_to_delete == SelectSeq(es, LAMBDA it : InKey(name, it.key)) IN
        Return([n \in DOMAIN ns \ {name} |-> ns[n]],
               SelectSeq(es, LAMBDA it : ~HasKey(edges_to_delete, it.key)),
               Len(edges_to_delete))

\* mutant of add_edge: the weights are checked after the edge is stored
add_edge_late_check(ns, es, u, v, distance, time, accessible) ==
    IF u = v THEN Raise(ns, es, "SelfLoop")
    ELSE IF u \notin DOMAIN ns \/ v \notin DOMAIN ns THEN Raise(ns, es, "NotFound")
    ELSE IF HasKey(es, key(u, v)) THEN Raise(ns, es, "DuplicateEdge")
    ELSE
        LET stored == Append(es, Item(key(u, v),
                                      Edge(u, v, distance, time, accessible)))
        IN  IF distance <= 0 \/ time <= 0 THEN Raise(ns, stored, "InvalidWeight")
            ELSE Return(ns, stored, 0)

\* mutant of add_edge: the weights are checked before the endpoints and the
\* pair
add_edge_weights_first(ns, es, u, v, distance, time, accessible) ==
    IF distance <= 0 \/ time <= 0 THEN Raise(ns, es, "InvalidWeight")
    ELSE IF u = v THEN Raise(ns, es, "SelfLoop")
    ELSE IF u \notin DOMAIN ns \/ v \notin DOMAIN ns THEN Raise(ns, es, "NotFound")
    ELSE IF HasKey(es, key(u, v)) THEN Raise(ns, es, "DuplicateEdge")
    ELSE Return(ns,
                Append(es, Item(key(u, v), Edge(u, v, distance, time, accessible))),
                0)

\* Graph.add_edge
add_edge(ns, es, u, v, distance, time, accessible) ==
    IF u = v THEN Raise(ns, es, "SelfLoop")
    ELSE IF u \notin DOMAIN ns \/ v \notin DOMAIN ns THEN Raise(ns, es, "NotFound")
    ELSE IF HasKey(es, key(u, v)) THEN Raise(ns, es, "DuplicateEdge")
    ELSE IF distance <= 0 \/ time <= 0 THEN Raise(ns, es, "InvalidWeight")
    ELSE Return(ns,
                Append(es, Item(key(u, v), Edge(u, v, distance, time, accessible))),
                0)

\* Graph.delete_edge
delete_edge(ns, es, u, v) ==
    IF ~HasKey(es, key(u, v)) THEN Raise(ns, es, "NotFound")
    ELSE Return(ns, SelectSeq(es, LAMBDA it : it.key # key(u, v)), 0)

\* Graph.get_edge: the Edge of the normalized pair, or None
None == [none |-> TRUE]

get_edge(es, a, b) ==
    IF HasKey(es, key(a, b))
    THEN (CHOOSE it \in {es[i] : i \in 1..Len(es)} : it.key = key(a, b)).e
    ELSE None

\* round(x, 1) of a float given in hundredths, result in tenths (to nearest;
\* a value half way goes to the even tenth)
round_1(x) ==
    LET q == x \div 10
        r == x % 10
    IN  IF r > 5 \/ (r = 5 /\ q % 2 = 1) THEN q + 1 ELSE q

\* Graph.randomize_weights: draws[i] is what random.uniform(50, 500) and
\* random.uniform(1, 10) return for the i-th edge, in hundredths
randomize_weights(es, draws) ==
    [i \in 1..Len(es) |->
        [es[i] EXCEPT !.e.distance = round_1(draws[i][1]),
                      !.e.time = round_1(draws[i][2])]]

----------------------------------------------------------------------------
(* Traversal *)

\* mutant of neighbors: closed edges are not skipped
RECURSIVE neighbors_closed_too(_, _, _)
neighbors_closed_too(es, name, accessible_only) ==
    IF es = <<>> THEN <<>>
    ELSE
        LET it == Head(es)
            rest == neighbors_closed_too(Tail(es), name, accessible_only)
        IN  IF accessible_only /\ ~it.e.accessible THEN rest
            ELSE IF it.key[1] = name THEN <<it.key[2]>> \o rest
            ELSE IF it.key[2] = name THEN <<it.key[1]>> \o rest
            ELSE rest

\* Graph.neighbors: one scan of the edges dict, in its insertion order
RECURSIVE neighbors(_, _, _)
neighbors(es, name, accessible_only) ==
    IF es = <<>> THEN <<>>
    ELSE
        LET it == Head(es)
            rest == neighbors(Tail(es), name, accessible_only)
        IN  IF it.e.closed THEN rest
            ELSE IF accessible_only /\ ~it.e.accessible THEN rest
            ELSE IF it.key[1] = name THEN <<it.key[2]>> \o rest
            ELSE IF it.key[2] = name THEN <<it.key[1]>> \o rest
            ELSE rest

\* parent[w] = u on a dict: an option is <<>> (None) or <<u>>
Put(parent, w, u) ==
    [n \in DOMAIN parent \cup {w} |-> IF n = w THEN u ELSE parent[n]]

\* list.reverse()
Reverse(s) == [i \in 1..Len(s) |-> s[Len(s) + 1 - i]]

\* App._reconstruct_path: the while loop that follows the parent pointers
RECURSIVE walk_back(_, _, _)
walk_back(parent, cur, path) ==
    IF parent[cur] = <<>> THEN path
    ELSE walk_back(parent, parent[cur][1], Append(path, parent[cur][1]))

\* App._reconstruct_path
reconstruct_path(parent, start, goal) ==
    IF goal \notin DOMAIN parent THEN <<>>
    ELSE
        LET path == Reverse(walk_back(parent, goal, <<goal>>)) IN
        IF path # <<>> /\ path[1] = start THEN path ELSE <<>>

\* mutant of Skipped: a non-accessible edge is skipped whatever the mode
Skipped_accessible_always(es, u, w, accessible_only) ==
    LET e == get_edge(es, u, w) IN
    \/ e = None
    \/ e.closed
    \/ ~e.accessible

\* the filter both traversals apply to the edge of a neighbour
Skipped(es, u, w, accessible_only) ==
    LET e == get_edge(es, u, w) IN
    \/ e = None
    \/ e.closed
    \/ (accessible_only /\ ~e.accessible)

\* mutant of bfs_for: a neighbour counts as visited only once it was dequeued
RECURSIVE bfs_for_late(_, _, _, _, _)
bfs_for_late(es, u, ws, accessible_only, st) ==
    IF ws = <<>> THEN st
    ELSE
        LET w == Head(ws) IN
        IF Skipped(es, u, w, accessible_only) THEN
            bfs_for_late(es, u, Tail(ws), accessible_only, st)
        ELSE IF \A i \in 1..Len(st.visited_order) : st.visited_order[i] # w THEN
            bfs_for_late(es, u, Tail(ws), accessible_only,
                    [st EXCEPT !.visited = @ \cup {w},
                               !.parent = Put(@, w, <<u>>),
                               !.q = Append(@, w)])
        ELSE bfs_for_late(es, u, Tail(ws), accessible_only, st)

\* mutant of bfs_for: the parent recorded is the start, not the node scanned
RECURSIVE bfs_for_parent_start(_, _, _, _, _)
bfs_for_parent_start(es, u, ws, accessible_only, st) ==
    IF ws = <<>> THEN st
    ELSE
        LET w == Head(ws) IN
        IF Skipped(es, u, w, accessible_only) THEN
            bfs_for_parent_start(es, u, Tail(ws), accessible_only, st)
        ELSE IF w \notin st.visited THEN
            bfs_for_parent_start(es, u, Tail(ws), accessible_only,
                    [st EXCEPT !.visited = @ \cup {w},
                               !.parent = Put(@, w, <<st.visited_order[1]>>),
                               !.q = Append(@, w)])
        ELSE bfs_for_parent_start(es, u, Tail(ws), accessible_only, st)

\* App._bfs: the for loop over the neighbours ws of u
RECURSIVE bfs_for(_, _, _, _, _)
bfs_for(es, u, ws, accessible_only, st) ==
    IF ws = <<>> THEN st
    ELSE
        LET w == Head(ws) IN
        IF Skipped(es, u, w, accessible_only) THEN
            bfs_for(es, u, Tail(ws), accessible_only, st)
        ELSE IF w \notin st.visited THEN
            bfs_for(es, u, Tail(ws), accessible_only,
                    [st EXCEPT !.visited = @ \cup {w},
                               !.parent = Put(@, w, <<u>>),
                               !.q = Append(@, w)])
        ELSE bfs_for(es, u, Tail(ws), accessible_only, st)

\* App._bfs: the while loop over the queue
RECURSIVE bfs_while(_, _, _, _)
bfs_while(es, goal, accessible_only, st) ==
    IF st.q = <<>> THEN st
    ELSE
        LET u == Head(st.q)
            st1 == [st EXCEPT !.q = Tail(@), !.visited_order = Append(@, u)]
        IN  IF u = goal THEN st1
            ELSE bfs_while(es, goal, accessible_only,
                     bfs_for(es, u, neighbors(es, u, accessible_only),
                             accessible_only, st1))

\* mutant of bfs: the visited set starts empty
bfs_unseeded(es, start, goal, accessible_only) ==
    LET st == bfs_while(es, goal, accessible_only,
                  [q |-> <<start>>,
                   parent |-> Put(<<>>, start, <<>>),
                   visited |-> {},
                   visited_order |-> <<>>])
    IN  [visited_order |-> st.visited_order,
         path |-> reconstruct_path(st.parent, start, goal),
         parent |-> st.parent]

\* App._bfs
bfs(es, start, goal, accessible_only) ==
    LET st == bfs_while(es, goal, accessible_only,
                  [q |-> <<start>>,
                   parent |-> Put(<<>>, start, <<>>),
                   visited |-> {start},
                   visited_order |-> <<>>])
    IN  [visited_order |-> st.visited_order,
         path |-> reconstruct_path(st.parent, start, goal),
         parent |-> st.parent]

\* App._dfs: rec(u) and its for loop over the neighbours ws of u
RECURSIVE dfs_rec(_, _, _, _, _)
RECURSIVE dfs_for(_, _, _, _, _, _)

\* mutant of dfs_for: the loop ends after the first neighbour it recursed into
dfs_for_first_only(es, goal, accessible_only, u, ws, st) ==
    IF ws = <<>> THEN st
    ELSE
        LET w == Head(ws) IN
        IF Skipped(es, u, w, accessible_only) THEN
            dfs_for(es, goal, accessible_only, u, Tail(ws), st)
        ELSE IF w \notin st.visited THEN
            dfs_rec(es, goal, accessible_only, w,
                    [st EXCEPT !.parent = Put(@, w, <<u>>)])
        ELSE dfs_for(es, goal, accessible_only, u, Tail(ws), st)

dfs_for(es, goal, accessible_only, u, ws, st) ==
    IF ws = <<>> THEN st
    ELSE
        LET w == Head(ws) IN
        IF Skipped(es, u, w, accessible_only) THEN
            dfs_for(es, goal, accessible_only, u, Tail(ws), st)
        ELSE IF w \notin st.visited THEN
            dfs_for(es, goal, accessible_only, u, Tail(ws),
                    dfs_rec(es, goal, accessible_only, w,
                            [st EXCEPT !.parent = Put(@, w, <<u>>)]))
        ELSE dfs_for(es, goal, accessible_only, u, Tail(ws), st)

dfs_rec(es, goal, accessible_only, u, st) ==
    IF st.found THEN st
    ELSE
        LET st1 == [st EXCEPT !.visited = @ \cup {u},
                              !.visited_order = Append(@, u)]
        IN  IF u = goal THEN [st1 EXCEPT !.found = TRUE]
            ELSE dfs_for(es, goal, accessible_only, u,
                         neighbors(es, u, accessible_only), st1)

\* App._dfs
dfs(es, start, goal, accessible_only) ==
    LET st == dfs_rec(es, goal, accessible_only, start,
                  [visited |-> {},
                   visited_order |-> <<>>,
                   parent |-> Put(<<>>, start, <<>>),
                   found |-> FALSE])
    IN  [visited_order |-> st.visited_order,
         path |-> IF st.found THEN reconstruct_path(st.parent, start, goal)
                  ELSE <<>>,
         parent |-> st.parent]

----------------------------------------------------------------------------
(* Output *)

\* int(x) of a non-negative float: the whole units of a value in tenths
int(x) == x \div 10

\* f"{x:.1f}" of a non-negative float: the digits before and after the point
format_1f(x) == [whole |-> x \div 10, tenth |-> x % 10]

\* mutant of path_totals: the loop stops one pair early
RECURSIVE path_totals_short(_, _, _, _)
path_totals_short(es, path, i, acc) ==
    IF i > Len(path) - 2 THEN acc
    ELSE
        LET e == get_edge(es, path[i], path[i + 1]) IN
        path_totals_short(es, path, i + 1,
            IF e # None
            THEN [total_dist |-> acc.total_dist + e.distance,
                  total_time |-> acc.total_time + e.time]
            ELSE acc)

\* App._print_result: the loop that adds up the edges of the path, from pair i
RECURSIVE path_totals(_, _, _, _)
path_totals(es, path, i, acc) ==
    IF i > Len(path) - 1 THEN acc
    ELSE
        LET e == get_edge(es, path[i], path[i + 1]) IN
        path_totals(es, path, i + 1,
            IF e # None
            THEN [total_dist |-> acc.total_dist + e.distance,
                  total_time |-> acc.total_time + e.time]
            ELSE acc)

\* App._print_result: the totals it computes (an option: <<>> when it computes
\* none) and the Distance and Time lines it writes
print_result(es, mode, visited_order, path) ==
    IF path # <<>> THEN
        LET t == path_totals(es, path, 1, [total_dist |-> 0, total_time |-> 0]) IN
        [mode |-> mode, visited_order |-> visited_order, path |-> path,
         totals |-> <<t>>,
         distance_text |-> <<int(t.total_dist)>>,
         time_text |-> <<format_1f(t.total_time)>>]
    ELSE
        [mode |-> mode, visited_order |-> visited_order, path |-> path,
         totals |-> <<>>, distance_text |-> <<>>, time_text |-> <<>>]

\* the output box before any search
NoOutput == [mode |-> "", visited_order |-> <<>>, path |-> <<>>,
             totals |-> <<>>, distance_text |-> <<>>, time_text |-> <<>>]

----------------------------------------------------------------------------
(* The A,B,C,D fixture: the network after
   add_node A, B, C, D; add_edge A-B (100, 1), B-C (100, 1), A-C (500, 5),
   C-D (50, 1, not accessible) *)

FixtureNodes == [n \in {A, B, C, D} |-> Node(n, 120, 140)]

FixtureEdges ==
    << Item(<<A, B>>, Edge(A, B, 1000, 10, TRUE)),
       Item(<<B, C>>, Edge(B, C, 1000, 10, TRUE)),
       Item(<<A, C>>, Edge(A, C, 5000, 50, TRUE)),
       Item(<<C, D>>, Edge(C, D, 500, 10, FALSE)) >>

\* no App around the Graph: the App state of a specification without handlers
NoApp ==
    /\ combo_values = <<>> /\ combo_start = <<>> /\ combo_goal = <<>>
    /\ listbox_nodes = <<>> /\ listbox_edges = <<>>
    /\ mode_place_node = FALSE
    /\ anim_steps = <<>> /\ anim_index = 0 /\ active_path = <<>>
    /\ animating = FALSE /\ timers = 0
    /\ dialog = "" /\ uncaught = "" /\ clicks = 0
    /\ txt_output = NoOutput

NoCall == [op |-> "", args |-> <<>>, err |-> "", value |-> 0]
NoResult == [mode |-> "", start |-> <<>>, goal |-> <<>>, accessible_only |-> FALSE,
             visited_order |-> <<>>, path |-> <<>>, parent |-> <<>>]

----------------------------------------------------------------------------
(* Spec: a client of the Graph class calling its four mutating operations,
   from the empty Graph() and from the fixture *)

\* what the client passes
NameInputs == Names \cup {EmptyName, Blank, PaddedA}
Positions == {<<120, 140>>}
EdgeInputs == {<<1000, 10, TRUE>>, <<1000, 10, FALSE>>,
               <<0, 10, TRUE>>, <<1000, -10, FALSE>>}

Init ==
    /\ \/ nodes = NoNodes /\ edges = <<>>
       \/ nodes = FixtureNodes /\ edges = FixtureEdges
    /\ ret = NoCall
    /\ res = NoResult
    /\ NoApp

\* a call of the client: the Graph takes the outcome, the client sees ret
Call(op, args, out) ==
    /\ nodes' = out.nodes
    /\ edges' = out.edges
    /\ ret' = [op |-> op, args |-> args, err |-> out.err, value |-> out.value]
    /\ UNCHANGED <<res, appVars>>

AddNode ==
    \E name \in NameInputs, p \in Positions :
        Call("add_node", <<name, p[1], p[2]>>,
             add_node(nodes, edges, name, p[1], p[2]))

DeleteNode ==
    \E name \in NodeNames :
        Call("delete_node", <<name>>, delete_node(nodes, edges, name))

AddEdge ==
    \E u \in Names, v \in Names, w \in EdgeInputs :
        Call("add_edge", <<u, v, w[1], w[2], w[3]>>,
             add_edge(nodes, edges, u, v, w[1], w[2], w[3]))

DeleteEdge ==
    \E u \in NodeNames, v \in NodeNames :
        Call("delete_edge", <<u, v>>, delete_edge(nodes, edges, u, v))

Next == AddNode \/ DeleteNode \/ AddEdge \/ DeleteEdge

Spec == Init /\ [][Next]_vars

----------------------------------------------------------------------------
(* SpecSearch: one call of App._bfs or App._dfs, and of App._print_result
   on what it returns, on a network.  The network is any one that add_node,
   add_edge and the two edge toggles can build on SearchNames with at most
   MaxEdges edges, in any insertion order, or the fixture; start and goal
   are any two names, present or not. *)

\* the edges dict items a pair of nodes can have: open and accessible, open
\* and not accessible, or closed (distance and time play no part in a
\* traversal, and a closed edge is skipped whatever its accessible flag)
SearchItems ==
    {Item(<<a, b>>, [Edge(a, b, 1000, 10, acc) EXCEPT !.closed = cl]) :
        <<a, b, acc, cl>> \in
            {t \in SearchNames \X SearchNames \X BOOLEAN \X BOOLEAN :
                StrLess(t[1], t[2]) /\ (t[4] => t[3])}}

SearchEdges ==
    {es \in UNION {[1..k -> SearchItems] : k \in 0..MaxEdges} :
        \A i, j \in 1..Len(es) : i # j => es[i].key # es[j].key}

\* a script that has built the network and has not called a traversal yet
InitSearch ==
    /\ \/ /\ nodes = [n \in SearchNames |-> Node(n, 120, 140)]
          /\ edges \in SearchEdges
       \/ /\ nodes = FixtureNodes
          /\ edges = FixtureEdges
    /\ ret = NoCall
    /\ res = NoResult
    /\ NoApp

Result(mode, start, goal, accessible_only, r) ==
    [mode |-> mode, start |-> start, goal |-> goal,
     accessible_only |-> accessible_only,
     visited_order |-> r.visited_order, path |-> r.path, parent |-> r.parent]

\* the App state a traversal and its printed result leave alone
searchFrame == <<combo_values, combo_start, combo_goal, listbox_nodes, listbox_edges,
                 mode_place_node, anim_steps, anim_index, active_path, animating,
                 timers, dialog, uncaught, clicks>>

\* mutant of Bfs: the traversal pops the edges of start from the edges dict
Bfs_pops_edges ==
    \E start \in NodeNames, goal \in NodeNames, accessible_only \in BOOLEAN :
        /\ res = NoResult
        /\ res' = Result("BFS", start, goal, accessible_only,
                         bfs(edges, start, goal, accessible_only))
        /\ edges' = SelectSeq(edges, LAMBDA it : ~InKey(start, it.key))
        /\ txt_output' = print_result(edges, "BFS", res'.visited_order, res'.path)
        /\ UNCHANGED <<nodes, ret, searchFrame>>

\* the script calls _bfs and prints its result, and ends
Bfs ==
    \E start \in NodeNames, goal \in NodeNames, accessible_only \in BOOLEAN :
        /\ res = NoResult
        /\ res' = Result("BFS", start, goal, accessible_only,
                         bfs(edges, start, goal, accessible_only))
        /\ txt_output' = print_result(edges, "BFS", res'.visited_order, res'.path)
        /\ UNCHANGED <<nodes, edges, ret, searchFrame>>

\* the script calls _dfs and prints its result, and ends
Dfs ==
    \E start \in NodeNames, goal \in NodeNames, accessible_only \in BOOLEAN :
        /\ res = NoResult
        /\ res' = Result("DFS", start, goal, accessible_only,
                         dfs(edges, start, goal, accessible_only))
        /\ txt_output' = print_result(edges, "DFS", res'.visited_order, res'.path)
        /\ UNCHANGED <<nodes, edges, ret, searchFrame>>

\* the branch of App._run_search on its mode
Traverse(mode, es, start, goal, accessible_only) ==
    IF mode = "BFS" THEN bfs(es, start, goal, accessible_only)
    ELSE dfs(es, start, goal, accessible_only)

NextSearch == Bfs \/ Dfs

SpecSearch == InitSearch /\ [][NextSearch]_vars

----------------------------------------------------------------------------
(* SpecNeighbors: Graph.neighbors called on a network of the same family *)

InitNeighbors ==
    /\ \/ /\ nodes = [n \in SearchNames |-> Node(n, 120, 140)]
          /\ edges \in SearchEdges
       \/ /\ nodes = FixtureNodes
          /\ edges = FixtureEdges
    /\ ret = NoCall
    /\ res = NoResult
    /\ NoApp

Neighbors ==
    \E name \in NodeNames, accessible_only \in BOOLEAN :
        /\ ret' = [op |-> "neighbors", args |-> <<name, accessible_only>>,
                   err |-> "", value |-> neighbors(edges, name, accessible_only)]
        /\ UNCHANGED <<nodes, edges, res, appVars>>

NextNeighbors == Neighbors

SpecNeighbors == InitNeighbors /\ [][NextNeighbors]_vars

----------------------------------------------------------------------------
(* SpecApp: the App, its handlers bound to the buttons, the canvas and the
   timer.  The sample campus of _load_sample_graph is cut down to three of
   its buildings and the pathways between them. *)

SportsComplex == <<83, 112, 111, 114, 116, 115, 32, 67, 111, 109, 112, 108, 101, 120>>
Engineering == <<69, 110, 103, 105, 110, 101, 101, 114, 105, 110, 103>>
Library == <<76, 105, 98, 114, 97, 114, 121>>

\* App._load_sample_graph: the buildings, in the order they are added
SampleBuildings ==
    << <<SportsComplex, 390, 320>>, <<Engineering, 520, 390>>, <<Library, 380, 480>> >>

\* App._load_sample_graph: the pathways, in the order they are added
SamplePathways ==
    << <<Library, Engineering, 1800, 25, TRUE>>,
       <<SportsComplex, Library, 1400, 20, FALSE>>,
       <<SportsComplex, Engineering, 1800, 25, TRUE>> >>

SampleNodes ==
    [n \in {SampleBuildings[i][1] : i \in 1..Len(SampleBuildings)} |->
        LET b == CHOOSE t \in {SampleBuildings[i] : i \in 1..Len(SampleBuildings)} :
                    t[1] = n
        IN  Node(n, b[2], b[3])]

SampleEdges ==
    [i \in 1..Len(SamplePathways) |->
        LET w == SamplePathways[i] IN
        Item(key(w[1], w[2]), Edge(w[1], w[2], w[3], w[4], w[5]))]

\* the number of user actions (selections and clicks) explored
MaxClicks == 4

\* sorted(self.graph.nodes.keys())
RECURSIVE SortedNames(_)
SortedNames(S) ==
    IF S = {} THEN <<>>
    ELSE LET m == CHOOSE x \in S : \A y \in S \ {x} : StrLess(x, y)
         IN  <<m>> \o SortedNames(S \ {m})

\* tuple comparison of two keys
KeyLess(k1, k2) ==
    \/ StrLess(k1[1], k2[1])
    \/ (k1[1] = k2[1] /\ StrLess(k1[2], k2[2]))

\* sorted(self.graph.edges.keys())
RECURSIVE SortedKeys(_)
SortedKeys(K) ==
    IF K = {} THEN <<>>
    ELSE LET m == CHOOSE x \in K : \A y \in K \ {x} : KeyLess(x, y)
         IN  <<m>> \o SortedKeys(K \ {m})

Keys(es) == {es[i].key : i \in 1..Len(es)}

\* App._refresh_node_lists: the combobox values
NodeValues(ns) == SortedNames(DOMAIN ns)

\* App._refresh_node_lists: a combobox keeps its text unless it is empty
RefreshedCombo(text, ns) ==
    IF NodeValues(ns) # <<>> /\ text = <<>> THEN NodeValues(ns)[1] ELSE text

\* App._refresh_node_lists: the rows of the node listbox
NodeRows(ns) ==
    [i \in 1..Len(NodeValues(ns)) |->
        [name |-> NodeValues(ns)[i], weight |-> ns[NodeValues(ns)[i]].weight]]

\* App._refresh_edge_list: the rows of the edge listbox
EdgeRows(es) ==
    [i \in 1..Len(SortedKeys(Keys(es))) |->
        LET k == SortedKeys(Keys(es))[i]
            e == get_edge(es, k[1], k[2])
        IN  [open |-> ~e.closed, a |-> k[1], b |-> k[2],
             m |-> e.distance \div 10, min |-> e.time, acc |-> e.accessible]]

\* App.__init__
InitApp ==
    /\ nodes = SampleNodes
    /\ edges = SampleEdges
    /\ ret = NoCall
    /\ res = NoResult
    /\ combo_values = NodeValues(SampleNodes)
    /\ combo_start = RefreshedCombo(<<>>, SampleNodes)
    /\ combo_goal = RefreshedCombo(<<>>, SampleNodes)
    /\ listbox_nodes = NodeRows(SampleNodes)
    /\ listbox_edges = EdgeRows(SampleEdges)
    /\ mode_place_node = FALSE
    /\ anim_steps = <<>> /\ anim_index = 0 /\ active_path = <<>>
    /\ animating = FALSE /\ timers = 0
    /\ dialog = "" /\ uncaught = "" /\ clicks = 0
    /\ txt_output = NoOutput

animVars == <<anim_steps, anim_index, active_path, animating, timers>>
graphVars == <<nodes, edges>>
nodeListVars == <<combo_values, combo_start, combo_goal, listbox_nodes>>

\* what the user types and picks
EntryTexts == {EmptyName, Blank, A, <<32, 65, 32>>}
ClickPositions == {<<120, 140>>}
\* the distance and time entries and the accessible checkbox of _add_edge
EdgeForms == {<<<<"number", 1500>>, <<"number", 25>>, TRUE>>,
              <<<<"number", 1500>>, <<"number", 25>>, FALSE>>,
              <<<<"number", 0>>, <<"number", 25>>, TRUE>>,
              <<<<"number", 1500>>, <<"text", 0>>, FALSE>>}
NoSelection == -1

\* what random.uniform(50, 500) and random.uniform(1, 10) return for one
\* edge, in hundredths: the least and the greatest values and two between
UniformDraws == <<<<5000, 100>>, <<27549, 551>>, <<50000, 1000>>>>

\* the draws of one randomization of n edges: the same draw for every edge,
\* or the draws above in turn
RandomDraws(n) ==
    {[i \in 1..n |-> UniformDraws[d]] : d \in 1..Len(UniformDraws)}
    \cup {[i \in 1..n |-> UniformDraws[((i - 1) % Len(UniformDraws)) + 1]]}

\* the user picks a value of the start / goal combobox
SelectStart ==
    \E i \in 1..Len(combo_values) :
        /\ clicks < MaxClicks
        /\ clicks' = clicks + 1
        /\ combo_start' = combo_values[i]
        /\ dialog' = "" /\ uncaught' = ""
        /\ UNCHANGED <<graphVars, ret, res, txt_output, combo_values, combo_goal, listbox_nodes,
                       listbox_edges, mode_place_node, animVars>>

SelectGoal ==
    \E i \in 1..Len(combo_values) :
        /\ clicks < MaxClicks
        /\ clicks' = clicks + 1
        /\ combo_goal' = combo_values[i]
        /\ dialog' = "" /\ uncaught' = ""
        /\ UNCHANGED <<graphVars, ret, res, txt_output, combo_values, combo_start, listbox_nodes,
                       listbox_edges, mode_place_node, animVars>>

\* App._start_place_node
StartPlaceNode ==
    \E text \in EntryTexts :
        /\ clicks < MaxClicks
        /\ clicks' = clicks + 1
        /\ IF strip(text) = <<>>
           THEN dialog' = "Empty Name" /\ UNCHANGED mode_place_node
           ELSE dialog' = "" /\ mode_place_node' = TRUE
        /\ uncaught' = ""
        /\ UNCHANGED <<graphVars, ret, res, txt_output, nodeListVars, listbox_edges, animVars>>

\* App._on_canvas_click
OnCanvasClick ==
    \E text \in EntryTexts, p \in ClickPositions :
        /\ clicks < MaxClicks
        /\ clicks' = clicks + 1
        /\ uncaught' = ""
        /\ UNCHANGED <<ret, res, txt_output, listbox_edges, animVars>>
        /\ IF ~mode_place_node THEN
              /\ dialog' = ""
              /\ UNCHANGED <<graphVars, nodeListVars, mode_place_node>>
           ELSE IF strip(text) = <<>> THEN
              /\ dialog' = "Empty Name"
              /\ UNCHANGED <<graphVars, nodeListVars, mode_place_node>>
           ELSE
              LET out == add_node(nodes, edges, strip(text), p[1], p[2]) IN
              /\ nodes' = out.nodes
              /\ edges' = out.edges
              /\ IF out.err = "" THEN
                    /\ mode_place_node' = FALSE
                    /\ combo_values' = NodeValues(nodes')
                    /\ combo_start' = RefreshedCombo(combo_start, nodes')
                    /\ combo_goal' = RefreshedCombo(combo_goal, nodes')
                    /\ listbox_nodes' = NodeRows(nodes')
                    /\ dialog' = ""
                 ELSE
                    /\ dialog' = "Error"
                    /\ UNCHANGED <<nodeListVars, mode_place_node>>

\* App._add_edge
AddEdgeClick ==
    \E i \in 1..Len(combo_values), j \in 1..Len(combo_values), w \in EdgeForms :
        LET u == strip(combo_values[i])
            v == strip(combo_values[j])
            dist == w[1]
            time == w[2]
            accessible == w[3]
        IN
        /\ clicks < MaxClicks
        /\ clicks' = clicks + 1
        /\ uncaught' = ""
        /\ UNCHANGED <<ret, res, txt_output, nodeListVars, mode_place_node, animVars>>
        /\ IF u = <<>> \/ v = <<>> THEN
              /\ dialog' = "Missing Info"
              /\ UNCHANGED <<graphVars, listbox_edges>>
           ELSE IF dist[1] # "number" \/ time[1] # "number" THEN
              /\ dialog' = "Invalid Input"
              /\ UNCHANGED <<graphVars, listbox_edges>>
           ELSE
              LET out == add_edge(nodes, edges, u, v, dist[2], time[2], accessible) IN
              /\ nodes' = out.nodes
              /\ edges' = out.edges
              /\ IF out.err = "" THEN
                    /\ listbox_edges' = EdgeRows(edges')
                    /\ dialog' = ""
                 ELSE
                    /\ dialog' = "Error"
                    /\ UNCHANGED listbox_edges

\* e.closed = not e.closed / e.accessible = not e.accessible on the edge of a key
Toggled(es, k, field) ==
    [i \in 1..Len(es) |->
        IF es[i].key = k
        THEN [es[i] EXCEPT !.e[field] = ~@]
        ELSE es[i]]

\* App._toggle_edge_closed and App._toggle_edge_accessible on a selection
toggle_edge(sel, field, title) ==
        LET keys == SortedKeys(Keys(edges)) IN
        /\ clicks < MaxClicks
        /\ clicks' = clicks + 1
        /\ uncaught' = ""
        /\ UNCHANGED <<nodes, ret, res, txt_output, nodeListVars, mode_place_node, animVars>>
        /\ IF sel = NoSelection THEN
              /\ dialog' = title
              /\ UNCHANGED <<edges, listbox_edges>>
           ELSE IF sel >= Len(keys) THEN
              /\ dialog' = ""
              /\ UNCHANGED <<edges, listbox_edges>>
           ELSE
              /\ edges' = Toggled(edges, keys[sel + 1], field)
              /\ listbox_edges' = EdgeRows(edges')
              /\ dialog' = ""

\* App._toggle_edge_closed
ToggleEdgeClosed ==
    \E sel \in {NoSelection} \cup 0..(Len(listbox_edges) - 1) :
        toggle_edge(sel, "closed", "No Selection")

\* App._toggle_edge_accessible
ToggleEdgeAccessible ==
    \E sel \in {NoSelection} \cup 0..(Len(listbox_edges) - 1) :
        toggle_edge(sel, "accessible", "No Selection")

\* App._delete_edge: the call of _refresh_Edge_list raises AttributeError
\* after the edge is deleted and the canvas redrawn
DeleteEdgeClick ==
    \E sel \in {NoSelection} \cup 0..(Len(listbox_edges) - 1), yes \in BOOLEAN :
        LET keys == SortedKeys(Keys(edges)) IN
        /\ clicks < MaxClicks
        /\ clicks' = clicks + 1
        /\ UNCHANGED <<ret, res, txt_output, nodeListVars, mode_place_node, animVars, listbox_edges>>
        /\ IF sel = NoSelection THEN
              /\ dialog' = "No Selection" /\ uncaught' = ""
              /\ UNCHANGED graphVars
           ELSE IF sel >= Len(keys) THEN
              /\ dialog' = "" /\ uncaught' = ""
              /\ UNCHANGED graphVars
           ELSE IF ~yes THEN
              /\ dialog' = "Confirm Delete" /\ uncaught' = ""
              /\ UNCHANGED graphVars
           ELSE
              LET out == delete_edge(nodes, edges, keys[sel + 1][1], keys[sel + 1][2]) IN
              /\ nodes' = out.nodes
              /\ edges' = out.edges
              /\ IF out.err = "" THEN
                    /\ dialog' = "Confirm Delete"
                    /\ uncaught' = "AttributeError"
                 ELSE
                    /\ dialog' = "Error"
                    /\ uncaught' = ""

\* App._delete_node
DeleteNodeClick ==
    \E sel \in {NoSelection} \cup 0..(Len(listbox_nodes) - 1), yes \in BOOLEAN :
        LET names == SortedNames(DOMAIN nodes) IN
        /\ clicks < MaxClicks
        /\ clicks' = clicks + 1
        /\ uncaught' = ""
        /\ UNCHANGED <<ret, res, txt_output, mode_place_node, animVars>>
        /\ IF sel = NoSelection THEN
              /\ dialog' = "No Selection"
              /\ UNCHANGED <<graphVars, nodeListVars, listbox_edges>>
           ELSE IF sel >= Len(names) THEN
              /\ dialog' = ""
              /\ UNCHANGED <<graphVars, nodeListVars, listbox_edges>>
           ELSE IF ~yes THEN
              /\ dialog' = "Confirm Delete"
              /\ UNCHANGED <<graphVars, nodeListVars, listbox_edges>>
           ELSE
              LET out == delete_node(nodes, edges, names[sel + 1]) IN
              /\ nodes' = out.nodes
              /\ edges' = out.edges
              /\ IF out.err = "" THEN
                    /\ combo_values' = NodeValues(nodes')
                    /\ combo_start' = RefreshedCombo(combo_start, nodes')
                    /\ combo_goal' = RefreshedCombo(combo_goal, nodes')
                    /\ listbox_nodes' = NodeRows(nodes')
                    /\ listbox_edges' = EdgeRows(edges')
                    /\ dialog' = "Success"
                 ELSE
                    /\ dialog' = "Error"
                    /\ UNCHANGED <<nodeListVars, listbox_edges>>

\* mutant of Steps: the range starts at 1, the first pair is left out
Steps_skips_first(path) ==
    [i \in 1..(IF Len(path) <= 1 THEN 0 ELSE Len(path) - 2) |->
        <<path[i + 1], path[i + 2]>>]

\* App._randomize_weights
RandomizeWeightsClick ==
    \E draws \in RandomDraws(Len(edges)) :
        /\ clicks < MaxClicks
        /\ clicks' = clicks + 1
        /\ uncaught' = ""
        /\ UNCHANGED <<nodes, ret, res, txt_output, nodeListVars, mode_place_node,
                       animVars>>
        /\ IF edges = <<>> THEN
              /\ dialog' = "No Edges"
              /\ UNCHANGED <<edges, listbox_edges>>
           ELSE
              /\ edges' = randomize_weights(edges, draws)
              /\ listbox_edges' = EdgeRows(edges')
              /\ dialog' = "Sucess"

\* App._randomize_node_weights: Graph has no method randomize_node_weights
\* (it defines randomize_node_Weights), so the call raises AttributeError
\* before any weight is written
RandomizeNodeWeightsClick ==
    /\ clicks < MaxClicks
    /\ clicks' = clicks + 1
    /\ UNCHANGED <<graphVars, ret, res, txt_output, nodeListVars, listbox_edges,
                   mode_place_node, animVars>>
    /\ IF DOMAIN nodes = {} THEN
          /\ dialog' = "No Buildings" /\ uncaught' = ""
       ELSE
          /\ dialog' = "" /\ uncaught' = "AttributeError"

\* [(path[i], path[i+1]) for i in range(len(path) - 1)]
Steps(path) ==
    [i \in 1..(IF Len(path) = 0 THEN 0 ELSE Len(path) - 1) |->
        <<path[i], path[i + 1]>>]

\* mutant of animate_step: the nodes of the step are looked up whether or
\* not the edge still exists
animate_step_unguarded(ns, es, index, steps, flag) ==
    IF index >= Len(steps)
    THEN [anim_index |-> index, animating |-> FALSE, scheduled |-> 0, err |-> ""]
    ELSE IF ~({steps[index + 1][1], steps[index + 1][2]} \subseteq DOMAIN ns)
    THEN [anim_index |-> index, animating |-> flag, scheduled |-> 0,
          err |-> "KeyError"]
    ELSE [anim_index |-> index + 1, animating |-> flag, scheduled |-> 1, err |-> ""]

\* mutant of animate_step: the callback that finds the cursor at the end of
\* the step list leaves the flag as it is
animate_step_never_clears(ns, es, index, steps, flag) ==
    IF index >= Len(steps)
    THEN [anim_index |-> index, animating |-> flag, scheduled |-> 0, err |-> ""]
    ELSE [anim_index |-> index + 1, animating |-> flag, scheduled |-> 1, err |-> ""]

\* App._animate_step on the network, a cursor and a step list: the cursor,
\* the flag, the number of callbacks it schedules and the exception it
\* raises ("" if none); the nodes of the step are looked up only if its edge
\* still exists
animate_step(ns, es, index, steps, flag) ==
    IF index >= Len(steps)
    THEN [anim_index |-> index, animating |-> FALSE, scheduled |-> 0, err |-> ""]
    ELSE
        LET a == steps[index + 1][1]
            b == steps[index + 1][2]
            e == get_edge(es, a, b)
        IN  IF e # None /\ ~({a, b} \subseteq DOMAIN ns)
            THEN [anim_index |-> index, animating |-> flag, scheduled |-> 0,
                  err |-> "KeyError"]
            ELSE [anim_index |-> index + 1, animating |-> flag, scheduled |-> 1,
                  err |-> ""]

\* the timer fires: App._animate_step
AnimateStep ==
    /\ timers > 0
    /\ LET a == animate_step(nodes, edges, anim_index, anim_steps, animating) IN
        /\ anim_index' = a.anim_index
        /\ animating' = a.animating
        /\ timers' = timers - 1 + a.scheduled
        /\ uncaught' = a.err
    /\ dialog' = ""
    /\ UNCHANGED <<graphVars, ret, res, txt_output, nodeListVars, listbox_edges, mode_place_node,
                   anim_steps, active_path, clicks>>

\* mutant of RunSearch: the request is served whether or not a playback is
\* in progress
RunSearch_while_animating ==
    \E mode \in {"BFS", "DFS"}, accessible_only \in BOOLEAN :
        LET start == strip(combo_start)
            goal == strip(combo_goal)
            r == Traverse(mode, edges, start, goal, accessible_only)
        IN
        /\ clicks < MaxClicks
        /\ clicks' = clicks + 1
        /\ UNCHANGED <<graphVars, ret, nodeListVars, listbox_edges, mode_place_node>>
        /\ IF start = <<>> \/ goal = <<>> THEN
              /\ dialog' = "Invalid Selection" /\ uncaught' = ""
              /\ UNCHANGED <<res, txt_output, animVars>>
           ELSE IF start = goal THEN
              /\ dialog' = "Same Node" /\ uncaught' = ""
              /\ UNCHANGED <<res, txt_output, animVars>>
           ELSE
              /\ res' = Result(mode, start, goal, accessible_only, r)
              /\ txt_output' = print_result(edges, mode, r.visited_order, r.path)
              /\ IF r.path = <<>> THEN
                    /\ dialog' = "No Path" /\ uncaught' = ""
                    /\ UNCHANGED animVars
                 ELSE
                    LET a == animate_step(nodes, edges, 0, Steps(r.path), TRUE) IN
                    /\ anim_steps' = Steps(r.path)
                    /\ active_path' = r.path
                    /\ anim_index' = a.anim_index
                    /\ animating' = a.animating
                    /\ timers' = timers + a.scheduled
                    /\ uncaught' = a.err
                    /\ dialog' = ""

\* App._run_search
RunSearch ==
    \E mode \in {"BFS", "DFS"}, accessible_only \in BOOLEAN :
        LET start == strip(combo_start)
            goal == strip(combo_goal)
            r == Traverse(mode, edges, start, goal, accessible_only)
        IN
        /\ clicks < MaxClicks
        /\ clicks' = clicks + 1
        /\ UNCHANGED <<graphVars, ret, nodeListVars, listbox_edges, mode_place_node>>
        /\ IF animating THEN
              /\ uncaught' = ""
              /\ UNCHANGED <<res, txt_output, animVars, dialog>>
           ELSE IF start = <<>> \/ goal = <<>> THEN
              /\ dialog' = "Invalid Selection" /\ uncaught' = ""
              /\ UNCHANGED <<res, txt_output, animVars>>
           ELSE IF start = goal THEN
              /\ dialog' = "Same Node" /\ uncaught' = ""
              /\ UNCHANGED <<res, txt_output, animVars>>
           ELSE
              /\ res' = Result(mode, start, goal, accessible_only, r)
              /\ txt_output' = print_result(edges, mode, r.visited_order, r.path)
              /\ IF r.path = <<>> THEN
                    /\ dialog' = "No Path" /\ uncaught' = ""
                    /\ UNCHANGED animVars
                 ELSE IF \E i \in 1..(Len(r.path) - 1) :
                            get_edge(edges, r.path[i], r.path[i + 1]) = None THEN
                    /\ dialog' = "Path Error" /\ uncaught' = ""
                    /\ UNCHANGED animVars
                 ELSE
                    LET a == animate_step(nodes, edges, 0, Steps(r.path), TRUE) IN
                    /\ anim_steps' = Steps(r.path)
                    /\ active_path' = r.path
                    /\ anim_index' = a.anim_index
                    /\ animating' = a.animating
                    /\ timers' = timers + a.scheduled
                    /\ uncaught' = a.err
                    /\ dialog' = ""

NextApp ==
    \/ SelectStart \/ SelectGoal
    \/ StartPlaceNode \/ OnCanvasClick
    \/ AddEdgeClick \/ ToggleEdgeClosed \/ ToggleEdgeAccessible
    \/ DeleteEdgeClick \/ DeleteNodeClick
    \/ RandomizeWeightsClick \/ RandomizeNodeWeightsClick
    \/ RunSearch \/ AnimateStep

SpecApp == InitApp /\ [][NextApp]_vars

\* the number of user actions explored under the fairness condition
MaxFairClicks == 3

\* the handlers of NextApp, the user going no further than MaxFairClicks
\* actions
NextAppFair ==
    \/ (clicks < MaxFairClicks /\ SelectStart)
    \/ (clicks < MaxFairClicks /\ SelectGoal)
    \/ (clicks < MaxFairClicks /\ StartPlaceNode)
    \/ (clicks < MaxFairClicks /\ OnCanvasClick)
    \/ (clicks < MaxFairClicks /\ AddEdgeClick)
    \/ (clicks < MaxFairClicks /\ ToggleEdgeClosed)
    \/ (clicks < MaxFairClicks /\ ToggleEdgeAccessible)
    \/ (clicks < MaxFairClicks /\ DeleteEdgeClick)
    \/ (clicks < MaxFairClicks /\ DeleteNodeClick)
    \/ (clicks < MaxFairClicks /\ RandomizeWeightsClick)
    \/ (clicks < MaxFairClicks /\ RandomizeNodeWeightsClick)
    \/ (clicks < MaxFairClicks /\ RunSearch)
    \/ AnimateStep

\* the App under a running Tk main loop: a callback scheduled with
\* self.after(450, self._animate_step) is eventually run
SpecAppFair == InitApp /\ [][NextAppFair]_vars /\ WF_vars(AnimateStep)

----------------------------------------------------------------------------
(* Claims about the Graph operations, checked under Spec *)

\* the unordered pair of names an item of the edges dict stands for
Ends(it) == {it.key[1], it.key[2]}

\* C1: after any sequence of add_node, delete_node, add_edge and delete_edge
\* calls, every edge has two distinct endpoints that both exist as nodes, and
\* there is at most one edge per unordered pair of names.
C1_EdgesWellFormed ==
    /\ \A i \in 1..Len(edges) :
          /\ edges[i].key[1] # edges[i].key[2]
          /\ Ends(edges[i]) \subseteq DOMAIN nodes
          /\ {edges[i].e.u, edges[i].e.v} = Ends(edges[i])
    /\ \A i, j \in 1..Len(edges) : i # j => Ends(edges[i]) # Ends(edges[j])

\* C1 witness: a delete_node that removed incident edges and left others
C1_Witness ==
    /\ ret.op = "delete_node" /\ ret.err = "" /\ ret.value >= 1
    /\ Len(edges) >= 1

\* C2: a successful delete_node(n) removes n and exactly the edges incident
\* to n, leaves every other node and edge as it was (same order, same
\* attributes) and returns the number of edges that were incident to n;
\* for node C of the fixture that number is 3.
C2_DeleteNodeFrame ==
    [][ (ret'.op = "delete_node" /\ ret'.err = "") =>
          LET n == ret'.args[1] IN
          /\ n \in DOMAIN nodes
          /\ DOMAIN nodes' = DOMAIN nodes \ {n}
          /\ \A m \in DOMAIN nodes' : nodes'[m] = nodes[m]
          /\ \A i \in 1..Len(edges') : n \notin Ends(edges'[i])
          /\ edges' = SelectSeq(edges, LAMBDA it : n \notin Ends(it))
          /\ ret'.value = Cardinality({i \in 1..Len(edges) : n \in Ends(edges[i])})
          /\ (nodes = FixtureNodes /\ edges = FixtureEdges /\ n = C
                => ret'.value = 3)
      ]_vars

\* C2 witness: node C deleted from the fixture, 3 edges reported, A-B left
C2_Witness ==
    /\ ret.op = "delete_node" /\ ret.err = "" /\ ret.args = <<C>> /\ ret.value = 3
    /\ DOMAIN nodes = {A, B, D}
    /\ Len(edges) = 1 /\ edges[1] = FixtureEdges[1]

\* the failure conditions of the four mutating operations, on the arguments
\* of the call and the network before it
PairExists(u, v) == \E i \in 1..Len(edges) : Ends(edges[i]) = {u, v}

ShouldFail(call) ==
    \/ /\ call.op = "add_node"
       /\ \/ \A i \in 1..Len(call.args[1]) : call.args[1][i] = 32
          \/ call.args[1] \in DOMAIN nodes
    \/ /\ call.op = "delete_node"
       /\ call.args[1] \notin DOMAIN nodes
    \/ /\ call.op = "add_edge"
       /\ \/ call.args[1] = call.args[2]
          \/ call.args[1] \notin DOMAIN nodes
          \/ call.args[2] \notin DOMAIN nodes
          \/ PairExists(call.args[1], call.args[2])
          \/ call.args[3] <= 0
          \/ call.args[4] <= 0
    \/ /\ call.op = "delete_edge"
       /\ ~PairExists(call.args[1], call.args[2])

\* C3: every failing mutating operation (add_node with empty or duplicate
\* name, delete_node of an absent node, add_edge with self-loop, missing
\* endpoint, duplicate pair or non-positive distance/time, delete_edge of an
\* absent pair) raises and leaves nodes, edges and their attributes unchanged.
C3_FailureLeavesModel ==
    [][ (ShouldFail(ret') \/ ret'.err # "") =>
          /\ ret'.err # ""
          /\ ShouldFail(ret')
          /\ nodes' = nodes
          /\ edges' = edges
      ]_vars

\* C3 witness: add_edge refused for its weights on a network that has edges
C3_Witness ==
    /\ ret.op = "add_edge" /\ ret.err = "InvalidWeight"
    /\ Len(edges) >= 1

\* C19: every node name stored in the network is non-empty and trimmed: after
\* any sequence of add_node calls no node name has leading or trailing
\* whitespace, so two names that differ only by surrounding whitespace never
\* coexist as distinct nodes.
C19_NamesTrimmed ==
    /\ \A n \in DOMAIN nodes : n # <<>> /\ strip(n) = n
    /\ \A n, m \in DOMAIN nodes : strip(n) = strip(m) => n = m

\* each pair of two different names, once
NamePairs == {p \in NodeNames \X NodeNames : StrLess(p[1], p[2])}

\* C4: add_edge(u,v) and add_edge(v,u) name the same edge: once the pair
\* exists in either order add_edge fails as a duplicate in both orders,
\* get_edge answers the same for both orders, and delete_edge in either
\* order removes that one edge and nothing else.  (get_edge is compared for
\* every pair of names after the first call and after each call that
\* succeeded: a call that raised left the edges as they were.)
C4_Normalized ==
    [][ /\ (ret = NoCall \/ ret'.err = "") =>
             \A p \in NamePairs :
                /\ get_edge(edges', p[1], p[2]) = get_edge(edges', p[2], p[1])
                /\ (get_edge(edges', p[1], p[2]) # None) <=>
                       (\E i \in 1..Len(edges') :
                           {edges'[i].e.u, edges'[i].e.v} = {p[1], p[2]})
        /\ (ret'.op = "add_edge" /\ PairExists(ret'.args[1], ret'.args[2])
             /\ ret'.args[1] # ret'.args[2])
            => ret'.err = "DuplicateEdge"
        /\ (ret'.op = "add_edge" /\ ret'.err = "")
            => /\ get_edge(edges', ret'.args[2], ret'.args[1]) =
                     Edge(ret'.args[1], ret'.args[2], ret'.args[3], ret'.args[4],
                          ret'.args[5])
               /\ Len(edges') = Len(edges) + 1
        /\ (ret'.op = "delete_edge" /\ PairExists(ret'.args[1], ret'.args[2]))
            => /\ ret'.err = ""
               /\ edges' = SelectSeq(edges,
                               LAMBDA it : Ends(it) # {ret'.args[1], ret'.args[2]})
               /\ Len(edges') = Len(edges) - 1
      ]_vars

\* C4 witness: add_edge(v,u) refused as a duplicate of the edge stored as (u,v)
C4_Witness ==
    /\ ret.op = "add_edge" /\ ret.err = "DuplicateEdge"
    /\ \E i \in 1..Len(edges) :
          edges[i].e.u = ret.args[2] /\ edges[i].e.v = ret.args[1]

\* C25: add_edge checks its failure conditions in the order self-loop,
\* missing endpoint, duplicate pair, non-positive distance/time, and reports
\* the first that applies: add_edge(u,u) with u absent reports the self-loop,
\* an existing pair given a non-positive distance reports the duplicate, and
\* a successful add_edge always creates the edge with closed == false.
C25_AddEdgeCheckOrder ==
    [][ ret'.op = "add_edge" =>
          LET u == ret'.args[1]
              v == ret'.args[2]
              self_loop == u = v
              missing == u \notin DOMAIN nodes \/ v \notin DOMAIN nodes
              duplicate == PairExists(u, v)
              weights == ret'.args[3] <= 0 \/ ret'.args[4] <= 0
          IN  /\ self_loop => ret'.err = "SelfLoop"
              /\ (~self_loop /\ missing) => ret'.err = "NotFound"
              /\ (~self_loop /\ ~missing /\ duplicate) => ret'.err = "DuplicateEdge"
              /\ (~self_loop /\ ~missing /\ ~duplicate /\ weights) =>
                    ret'.err = "InvalidWeight"
              /\ (~self_loop /\ ~missing /\ ~duplicate /\ ~weights) => ret'.err = ""
              /\ ret'.err = "" =>
                    /\ ~PairExists(u, v)
                    /\ \E i \in 1..Len(edges') :
                          /\ Ends(edges'[i]) = {u, v}
                          /\ edges'[i].e.closed = FALSE
      ]_vars

\* C25 witness: add_edge refused as a duplicate for an existing pair given
\* a non-positive distance
C25_Witness ==
    /\ ret.op = "add_edge" /\ ret.err = "DuplicateEdge"
    /\ ret.args[3] <= 0
    /\ PairExists(ret.args[1], ret.args[2])

----------------------------------------------------------------------------
(* Claims about the traversals, checked under SpecSearch *)

\* the pairs a traversal may cross: not closed, accessible when asked for
Traversable(es, accessible_only) ==
    {Ends(es[i]) : i \in {j \in 1..Len(es) :
        ~es[j].e.closed /\ (accessible_only => es[j].e.accessible)}}

\* the names within k traversable edges of start
RECURSIVE Within(_, _, _, _)
Within(es, accessible_only, start, k) ==
    IF k = 0 THEN {start}
    ELSE LET S == Within(es, accessible_only, start, k - 1)
             T == Traversable(es, accessible_only)
         IN  S \cup {w \in UNION T : \E u \in S : {u, w} \in T}

Reachable(es, accessible_only, start, goal) ==
    goal \in Within(es, accessible_only, start, Len(es))

\* the least number of traversable edges from start to a reachable goal
Distance(es, accessible_only, start, goal) ==
    CHOOSE k \in 0..Len(es) :
        /\ goal \in Within(es, accessible_only, start, k)
        /\ k > 0 => goal \notin Within(es, accessible_only, start, k - 1)

\* C5: if the goal is reachable from start over traversable edges, BFS
\* returns a path whose edge count is the minimum number of traversable
\* edges between them; BFS(A, D, accessible_only = false) on the fixture
\* returns [A, C, D].
C5_BfsShortest ==
    res.mode = "BFS" =>
        /\ Reachable(edges, res.accessible_only, res.start, res.goal) =>
              /\ res.path # <<>>
              /\ Len(res.path) - 1 =
                    Distance(edges, res.accessible_only, res.start, res.goal)
        /\ (edges = FixtureEdges /\ res.start = A /\ res.goal = D
             /\ ~res.accessible_only) => res.path = <<A, C, D>>

\* C5 witness: the fixture search, with the two-edge path found
C5_Witness ==
    /\ res.mode = "BFS" /\ edges = FixtureEdges
    /\ res.start = A /\ res.goal = D /\ ~res.accessible_only
    /\ res.path = <<A, C, D>>

\* C6: DFS returns a non-empty path if and only if the goal is reachable
\* from start over traversable edges.
C6_DfsFindsIffReachable ==
    res.mode = "DFS" =>
        (res.path # <<>> <=>
            Reachable(edges, res.accessible_only, res.start, res.goal))

\* C6 witness: DFS found the goal after backtracking out of a dead end
C6_Witness ==
    /\ res.mode = "DFS" /\ Len(res.path) >= 2
    /\ Len(res.visited_order) > Len(res.path)

\* C7: a non-empty path of BFS or DFS starts with start, ends with goal, and
\* every consecutive pair is joined by an edge that is not closed and, when
\* accessible_only is set, accessible.
C7_PathIsTraversable ==
    (res.mode # "" /\ res.path # <<>>) =>
        /\ res.path[1] = res.start
        /\ res.path[Len(res.path)] = res.goal
        /\ \A i \in 1..(Len(res.path) - 1) :
              {res.path[i], res.path[i + 1]} \in
                  Traversable(edges, res.accessible_only)

\* C7 witness: an accessible-only path of two edges in a network that also
\* has a closed or non-accessible edge
C7_Witness ==
    /\ res.mode # "" /\ res.accessible_only /\ Len(res.path) = 3
    /\ \E i \in 1..Len(edges) : edges[i].e.closed \/ ~edges[i].e.accessible

\* the orders in which the same edges can have been added
Reorderings(es) ==
    {[i \in 1..Len(es) |-> es[p[i]]] :
        p \in {q \in [1..Len(es) -> 1..Len(es)] :
                  \A i, j \in 1..Len(es) : i # j => q[i] # q[j]}}

Ascending(ws) == \A i \in 1..(Len(ws) - 1) : StrLess(ws[i], ws[i + 1])

\* C9: BFS and DFS enumerate the neighbours of each node in ascending name
\* order, so a network with the same nodes and edges, added in any other
\* order, gives the same visited_order and path.
C9_OrderIndependent ==
    res.mode # "" =>
        /\ \A n \in NodeNames :
              Ascending(neighbors(edges, n, res.accessible_only))
        /\ \A es \in Reorderings(edges) :
              LET r == Traverse(res.mode, es, res.start, res.goal,
                                res.accessible_only)
              IN  r.visited_order = res.visited_order /\ r.path = res.path

\* C10: visited_order of BFS and DFS contains no node twice and begins with
\* start.
C10_VisitedOrder ==
    res.mode # "" =>
        /\ res.visited_order # <<>>
        /\ res.visited_order[1] = res.start
        /\ \A i, j \in 1..Len(res.visited_order) :
              i # j => res.visited_order[i] # res.visited_order[j]

\* C10 witness: a traversal that went round a cycle of three nodes
C10_Witness ==
    /\ res.mode # "" /\ Len(res.visited_order) = 3
    /\ Cardinality(Traversable(edges, res.accessible_only)) = 3
    /\ res.path = <<>>

\* the set of the names in a list
Range(s) == {s[i] : i \in 1..Len(s)}

\* C11: when the goal is not reachable from start under the active filters,
\* BFS and DFS return an empty path and visited_order holds exactly the nodes
\* reachable from start over traversable edges, so never the goal; on the
\* fixture BFS(A, D, accessible_only = true) gives path [] and a
\* visited_order without D.
C11_UnreachableGoal ==
    res.mode # "" =>
        /\ ~Reachable(edges, res.accessible_only, res.start, res.goal) =>
              /\ res.path = <<>>
              /\ Range(res.visited_order) =
                    Within(edges, res.accessible_only, res.start, Len(edges))
              /\ res.goal \notin Range(res.visited_order)
        /\ (res.mode = "BFS" /\ edges = FixtureEdges /\ res.start = A
             /\ res.goal = D /\ res.accessible_only) =>
              /\ res.path = <<>>
              /\ D \notin Range(res.visited_order)

\* C11 witness: the accessible-only fixture search, which visited A, B and C
C11_Witness ==
    /\ res.mode = "BFS" /\ edges = FixtureEdges
    /\ res.start = A /\ res.goal = D /\ res.accessible_only
    /\ res.path = <<>> /\ res.visited_order = <<A, B, C>>

\* C13: running BFS or DFS changes nothing in the network: the node set, the
\* edge set and every node and edge attribute are the same after the
\* traversal as before it.
C13_TraversalReadOnly ==
    [][ res'.mode # "" => (nodes' = nodes /\ edges' = edges) ]_vars

\* C13 witness: a traversal that crossed edges of a network of three edges
C13_Witness ==
    /\ res.mode # "" /\ Len(edges) = 3
    /\ Len(res.visited_order) = 3 /\ Len(res.path) = 2

\* the edge that joins two names
Joining(es, a, b) == CHOOSE it \in Range(es) : Ends(it) = {a, b}

\* the sum of an attribute over the edges joining the consecutive pairs
RECURSIVE SumOver(_, _, _)
SumOver(es, path, field) ==
    IF Len(path) <= 1 THEN 0
    ELSE Joining(es, path[1], path[2]).e[field] + SumOver(es, Tail(path), field)

Sums(es, path) ==
    [total_dist |-> SumOver(es, path, "distance"),
     total_time |-> SumOver(es, path, "time")]

\* C17 as stated: the total distance and total time of a result are the sums
\* of distance and time over the edges joining each consecutive pair of the
\* path, and both are 0 for an empty or single-node path; for the fixture and
\* path [A, C, D] they are 550 and 6.
C17_Totals ==
    res.mode # "" =>
        /\ txt_output.totals = <<Sums(edges, res.path)>>
        /\ (edges = FixtureEdges /\ res.path = <<A, C, D>>) =>
              txt_output.totals = <<[total_dist |-> 5500, total_time |-> 60]>>

\* C17 amended: for a non-empty path the totals are those sums, 0 and 0 for a
\* single-node path, 550 and 6 for the fixture and path [A, C, D]; for an
\* empty path no totals are computed.
C17_TotalsOfFoundPath ==
    res.mode # "" =>
        /\ res.path # <<>> => txt_output.totals = <<Sums(edges, res.path)>>
        /\ Len(res.path) = 1 =>
              txt_output.totals = <<[total_dist |-> 0, total_time |-> 0]>>
        /\ res.path = <<>> => txt_output.totals = <<>>
        /\ (edges = FixtureEdges /\ res.path = <<A, C, D>>) =>
              txt_output.totals = <<[total_dist |-> 5500, total_time |-> 60]>>

\* C17 witness: the totals of the fixture path A, C, D
C17_Witness ==
    /\ edges = FixtureEdges /\ res.path = <<A, C, D>>
    /\ txt_output.totals = <<[total_dist |-> 5500, total_time |-> 60]>>

\* C21: once DFS has visited the goal, no frame of the recursion scans any
\* further neighbour: no node is appended to visited_order and no parent
\* entry is written after the goal is visited, so the goal is the last
\* element of visited_order and the parent map holds entries only for
\* visited nodes.
C21_DfsStopsAtGoal ==
    (res.mode = "DFS" /\ res.goal \in Range(res.visited_order)) =>
        /\ res.visited_order[Len(res.visited_order)] = res.goal
        /\ DOMAIN res.parent \subseteq Range(res.visited_order)

----------------------------------------------------------------------------
(* Claim about Graph.neighbors, checked under SpecNeighbors *)

\* C12: neighbors(name, accessible_only) returns exactly the nodes w such
\* that an edge {name, w} exists that is not closed and, when accessible_only
\* is set, accessible; the result never contains name, contains no node
\* twice, and is empty for a node without edges; a closed edge contributes no
\* neighbour in either mode.
C12_NeighborsContract ==
    ret.op = "neighbors" =>
        LET name == ret.args[1]
            accessible_only == ret.args[2]
            ws == ret.value
        IN  /\ ret.err = ""
            /\ Range(ws) =
                  {w \in NodeNames :
                      \E i \in 1..Len(edges) :
                          /\ Ends(edges[i]) = {name, w} /\ w # name
                          /\ ~edges[i].e.closed
                          /\ accessible_only => edges[i].e.accessible}
            /\ name \notin Range(ws)
            /\ \A i, j \in 1..Len(ws) : i # j => ws[i] # ws[j]
            /\ (\A i \in 1..Len(edges) : name \notin Ends(edges[i])) => ws = <<>>
            /\ \A i \in 1..Len(edges) :
                  (edges[i].e.closed /\ name \in Ends(edges[i])) =>
                      Ends(edges[i]) \cap Range(ws) = {}

\* C12 witness: a node with a closed edge and an open one, asked for its
\* neighbours
C12_Witness ==
    /\ ret.op = "neighbors" /\ Len(ret.value) = 1
    /\ \E i \in 1..Len(edges) :
          edges[i].e.closed /\ ret.args[1] \in Ends(edges[i])

----------------------------------------------------------------------------
(* Claims about the searches of the App, checked under SpecApp *)

\* C14: while step playback of a found path is in progress (from the search
\* that found the path until the cursor reaches the end of the step list) no
\* operation changes the network: no node or edge is added or deleted, no
\* edge is closed, reopened or has its accessibility toggled, and no weights
\* are randomized.
C14_NoMutationDuringPlayback ==
    [][ (animating /\ anim_index < Len(anim_steps)) =>
            (nodes' = nodes /\ edges' = edges) ]_vars

\* C15: for a found path of n nodes (n >= 1) the step sequence has exactly
\* n-1 steps and step i is the pair (path[i], path[i+1]), in path order.
C15_StepSequence ==
    res.path # <<>> =>
        /\ Len(anim_steps) = Len(res.path) - 1
        /\ \A i \in 1..Len(anim_steps) :
              anim_steps[i] = <<res.path[i], res.path[i + 1]>>

\* C15 witness: the two steps of a path of three buildings
C15_Witness ==
    /\ Len(res.path) = 3 /\ Len(anim_steps) = 2
    /\ anim_steps[2] = <<res.path[2], res.path[3]>>

\* C16: the single-step advance of playback changes only the cursor: it
\* never changes the network, the stored path or the step list, and it
\* completes, including when the edge or a node named by the current step has
\* been deleted since the search ran.  (The advance is the one step of the
\* App that is not a click of the user.)
C16_AdvanceOnlyCursor ==
    [][ clicks' = clicks =>
            /\ nodes' = nodes /\ edges' = edges
            /\ res' = res /\ active_path' = active_path
            /\ anim_steps' = anim_steps
            /\ uncaught' = "" ]_vars

\* C16 witness: the advance has just passed the second step of a path whose
\* edge was deleted after the search
C16_Witness ==
    /\ animating /\ Len(anim_steps) = 2 /\ anim_index = 2
    /\ get_edge(edges, anim_steps[2][1], anim_steps[2][2]) = None
    /\ dialog = "" /\ uncaught = "" /\ clicks = 3

\* C22: a search request made while playback is in progress (animating is
\* true) is ignored: it changes neither the step list, the cursor, the active
\* path nor the animating flag, so at most one playback (one chain of timer
\* callbacks) is ever active.
C22_SearchIgnoredDuringPlayback ==
    [][ /\ (animating /\ RunSearch) =>
              UNCHANGED <<anim_steps, anim_index, active_path, animating, timers>>
        /\ timers' <= 1 ]_vars

\* C22 witness: a playback is in progress with its one callback pending while
\* the comboboxes select a pair other than the one being played, after four
\* user actions (select, search, select, search)
C22_Witness ==
    /\ animating /\ timers = 1 /\ anim_index < Len(anim_steps)
    /\ <<strip(combo_start), strip(combo_goal)>> # <<res.start, res.goal>>
    /\ strip(combo_start) # strip(combo_goal)
    /\ clicks = 4 /\ dialog = "" /\ uncaught = ""

\* C23: playback always finishes: after a search finds a path of n nodes, and
\* provided the timer keeps firing, the cursor advances by exactly one per
\* callback, never exceeds the step count (0 <= anim_index <= len(anim_steps)
\* in every reachable state), and after n-1 advances the animating flag
\* becomes false so that a new search is accepted again.  (The step list of
\* a path of n nodes has n-1 steps; the callback that finds the cursor at the
\* end of the list is the one that clears the flag, and it is the last of the
\* chain.)
C23_PlaybackFinishes ==
    /\ [](0 <= anim_index /\ anim_index <= Len(anim_steps))
    /\ [][ AnimateStep =>
              IF anim_index < Len(anim_steps)
              THEN anim_index' = anim_index + 1 /\ animating' = animating
                   /\ timers' = 1
              ELSE anim_index' = anim_index /\ ~animating' /\ timers' = 0 ]_vars
    /\ (animating ~> (~animating /\ anim_index = Len(anim_steps) /\ timers = 0))

\* C23 witness: the playback of a path of three buildings has finished: the
\* cursor stands at the end of the two steps and the flag is false
C23_Witness ==
    /\ Len(res.path) = 3 /\ Len(anim_steps) = 2 /\ anim_index = 2
    /\ ~animating /\ timers = 0 /\ active_path = res.path

\* C24: after every completed edit action (add connection, delete
\* connection, delete building, toggle closed, toggle accessible, randomize
\* weights) the connection list shown to the user has one row per edge of the
\* model in sorted key order, so the row selected for Toggle Closed, Toggle
\* Accessible or Delete Connection always designates the edge that row
\* displays.
C24_EdgeListInSync ==
    /\ listbox_edges = EdgeRows(edges)
    /\ \A i \in 1..Len(listbox_edges) :
          i <= Len(SortedKeys(Keys(edges)))
          /\ SortedKeys(Keys(edges))[i] = <<listbox_edges[i].a, listbox_edges[i].b>>

\* C18: the randomize-node-weights operation, invoked on a network with at
\* least one node, completes and leaves every node with a weight in
\* [0.5, 3.0], and the randomize-edge-weights operation leaves every edge with
\* distance in [50, 500] and time in [1, 10].
C18_RandomizeRanges ==
    [][ /\ (RandomizeNodeWeightsClick /\ DOMAIN nodes # {}) =>
              /\ uncaught' = ""
              /\ \A n \in DOMAIN nodes' :
                    nodes'[n].weight >= 5 /\ nodes'[n].weight <= 30
        /\ (RandomizeWeightsClick /\ edges # <<>>) =>
              /\ uncaught' = ""
              /\ \A i \in 1..Len(edges') :
                    /\ edges'[i].e.distance >= 500 /\ edges'[i].e.distance <= 5000
                    /\ edges'[i].e.time >= 10 /\ edges'[i].e.time <= 100
      ]_vars

\* C20: the total distance shown to the user for a found path is the
\* internally stored total rounded to one decimal place, and the total time
\* shown is the stored total to one decimal place.  (A stored total is a
\* sum of values with one decimal, so in tenths it is its own rounding; the
\* Distance line denotes whole units, the Time line units and tenths.)
C20_DisplayRounding ==
    txt_output.totals # <<>> =>
        /\ 10 * txt_output.distance_text[1] = txt_output.totals[1].total_dist
        /\ 10 * txt_output.time_text[1].whole + txt_output.time_text[1].tenth =
              txt_output.totals[1].total_time

\* C8: a traversal whose start or goal is not a node fails with NotFound
\* instead of returning a result; a search run after delete_node removed the
\* building still selected as start or goal does not report "no path found".
C8_AbsentEndpointIsNotFound ==
    dialog = "No Path" =>
        /\ res.start \in DOMAIN nodes
        /\ res.goal \in DOMAIN nodes

====
